---- MODULE Spec2Model ----
(***************************************************************************)
(* A model of the CSD_MT_94 drive controller (src/src/csd_mt_94): the      *)
(* control-word read-modify-write primitives, the motion sequencer (move,  *)
(* rotate, halt), the wait-for-target-reached poll loop and the word       *)
(* codecs, over a register transport that may fail.                        *)
(*                                                                         *)
(* One action is one transport call of a caller together with the local    *)
(* computation that follows it up to the caller's next transport call.     *)
(* Integers wider than 31 bits (positions, which the code range-checks     *)
(* against the signed 32-bit range) are held as two limbs, hi * 2^16 + lo  *)
(* with lo in 0..65535, because TLC's integers are 32 bits wide.           *)
(***************************************************************************)
EXTENDS Integers, Sequences, FiniteSets, TLC

\* ------------------------------------------------------------------ bounds

\* The clock stops ticking at MaxNow unless a poll loop still waits for its
\* deadline.
MaxNow == 1
\* The largest timeout argument (in clock ticks) a caller passes.
MaxTimeout == 1
\* The number of transport calls the transport may fail in one behaviour.
MaxFaults == 1

\* ------------------------------------------------------- program constants

WordBits == 16
REG_STATUS_WORD == 1001
REG_ACTUAL_POSITION == 1004
REG_CONTROL_WORD == 1040
REG_TARGET_POSITION == 1042
REG_TARGET_VELOCITY == 1048
REG_STEP_REVOLUTION == 1081

\* ---------------------------------------------------------------- helpers

Word == 2 ^ WordBits

\* Bit i of the non-negative integer w, as 0 or 1.
Bit(w, i) == (w \div (2 ^ i)) % 2

RECURSIVE XorFrom(_, _, _)
XorFrom(a, b, i) ==
  IF i = WordBits THEN 0
  ELSE ((Bit(a, i) + Bit(b, i)) % 2) * (2 ^ i) + XorFrom(a, b, i + 1)

\* Python's a ^ b on 16-bit operands.
Xor(a, b) == XorFrom(a, b, 0)

RECURSIVE AndFrom(_, _, _)
AndFrom(a, b, i) ==
  IF i = WordBits THEN 0
  ELSE (Bit(a, i) * Bit(b, i)) * (2 ^ i) + AndFrom(a, b, i + 1)

\* Python's a & b on 16-bit operands.
And(a, b) == AndFrom(a, b, 0)

\* Python's -value for a bool, kept to the low 16 bits: -True is all ones,
\* -False is 0. Only bit `bit` < 16 of it is used by SetBit.
NegBool(value) == IF value THEN Word - 1 ELSE 0

\* SetBit that flips the bit whatever the value asked for.
SetBitFlips(control_word, bit, value) == Xor(control_word, 2 ^ bit)

\* control_word ^= (-value ^ control_word) & (1 << bit)
SetBit(control_word, bit, value) ==
  Xor(control_word, And(Xor(NegBool(value), control_word), 2 ^ bit))

\* SetBits with the loop left after its first pass.
SetBitsFirstOnly(control_word, bits) ==
  IF bits = <<>> THEN control_word
  ELSE SetBit(control_word, Head(bits)[1], Head(bits)[2])

\* for bit, value in bits.items(): control_word ^= ...
\* `bits` is the dict as its sequence of <<bit, value>> items, in insertion order.
RECURSIVE SetBits(_, _)
SetBits(control_word, bits) ==
  IF bits = <<>> THEN control_word
  ELSE SetBits(SetBit(control_word, Head(bits)[1], Head(bits)[2]), Tail(bits))

\* A wide integer hi * 2^16 + lo.
Wide(hi, lo) == [hi |-> hi, lo |-> lo]

\* position < -2147483648 or position > 2147483647
OutOfInt32(position) == position.hi < -32768 \/ position.hi > 32767

\* int32_to_uint16: value & 0xFFFFFFFF, then (lsb, msb).
int32_to_uint16(value) == <<value.lo, value.hi % Word>>

\* merge_registers: (registers[1] << 16) + registers[0], on Python's
\* 0-based list; sequences here are 1-based.
merge_registers(registers) == Wide(registers[2], registers[1])


\* to_bits_list with the least significant bit first.
to_bits_list_reversed(value) == [k \in 1..WordBits |-> Bit(value, k - 1) = 1]

\* to_bits_list: f"{value:016b}" as a list of bools, most significant bit
\* first (for a register value, which is below 2^16).
to_bits_list(value) == [k \in 1..WordBits |-> Bit(value, WordBits - k) = 1]

\* The field names of STATUS_WORD, in declaration order.
StatusWordFields ==
  <<"profile_ramp", "closed_loop_active", "following_error",
    "set_point_acknowledged", "int_limit_active", "target_reached", "remote",
    "manufact_spec", "warning", "switch_on_disabled", "quick_stop",
    "voltage_enabled", "fault", "operation_enabled", "switched_on",
    "ready_to_switch_on">>

\* STATUS_WORD._make(bits): the k-th field takes the k-th list element.
STATUS_WORD(bits) ==
  [n \in {StatusWordFields[k] : k \in 1..WordBits} |->
     bits[CHOOSE k \in 1..WordBits : StatusWordFields[k] = n]]

\* The field names of the CONTROL_WORD dataclass, in declaration order.
ControlWordFields ==
  <<"user_specific_15", "user_specific_14", "user_specific_13",
    "user_specific_12", "user_specific_11", "reserved_10", "reserved_9",
    "halt", "fault_reset", "relative_cs", "change_set_immediately",
    "new_set_point", "enable_op", "quick_stop", "enable_voltage",
    "switch_on">>

\* CONTROL_WORD(*bits): the k-th field takes the k-th positional argument.
CONTROL_WORD(bits) ==
  [n \in {ControlWordFields[k] : k \in 1..WordBits} |->
     bits[CHOOSE k \in 1..WordBits : ControlWordFields[k] = n]]

\* A CONTROL_WORD instance as the state holds it: its field values in
\* declaration order (<<>> where there is none).
FieldValues(control) == [k \in 1..WordBits |-> control[ControlWordFields[k]]]

\* CONTROL_WORD.to_bits: the dict {0: self.switch_on, ..., 15:
\* self.user_specific_15}, as its sequence of <<key, value>> items.
to_bits(control) ==
  [k \in 1..WordBits |-> <<k - 1, control[ControlWordFields[WordBits + 1 - k]]>>]

\* Iterating a dict yields its keys.
DictIter(items) == [k \in 1..Len(items) |-> items[k][1]]

\* str(n) of a non-negative integer, as its sequence of decimal digits.
RECURSIVE Str(_)
Str(n) == IF n < 10 THEN <<n>> ELSE Str(n \div 10) \o <<n % 10>>

\* ''.join(strs)
RECURSIVE Join(_)
Join(strs) == IF strs = <<>> THEN <<>> ELSE Head(strs) \o Join(Tail(strs))

RECURSIVE Base2(_)
Base2(digits) ==
  IF digits = <<>> THEN 0
  ELSE 2 * Base2(SubSeq(digits, 1, Len(digits) - 1)) + digits[Len(digits)]

\* int(s, 2): a ValueError unless every character is 0 or 1.
IntBase2(digits) ==
  IF digits = <<>> \/ \E k \in 1..Len(digits) : digits[k] > 1
  THEN [ok |-> FALSE, value |-> 0]
  ELSE [ok |-> TRUE, value |-> Base2(digits)]

\* set_control_word's else branch:
\*   bits = control.to_bits()
\*   value = int(''.join([str(int(i)) for i in bits]), 2)
EncodeControlWord(control) ==
  LET bits == DictIter(to_bits(control))
  IN IntBase2(Join([k \in 1..Len(bits) |-> Str(bits[k])]))

\* ------------------------------------------------- Python's float arithmetic
\*
\* rotate computes its target in Python floats (IEEE 754 doubles, every
\* operation rounded to nearest, ties to even). A double is held here as
\* [neg, m, e], the value (-1)^neg * m * 2^e, its significand m a natural
\* number below 2^53 written as little-endian limbs in base 2^15 (<<>> is 0).

LimbBits == 15
Limb == 2 ^ LimbBits
SignificandBits == 53

\* The limbs of a without its high zero limbs.
RECURSIVE BigNorm(_)
BigNorm(a) ==
  IF a # <<>> /\ a[Len(a)] = 0 THEN BigNorm(SubSeq(a, 1, Len(a) - 1)) ELSE a

\* The limbs of the integer n, 0 <= n < 2^31.
BigFromInt(n) == BigNorm(<<n % Limb, (n \div Limb) % Limb, n \div (Limb * Limb)>>)

\* The limbs of the non-negative wide integer w.hi * 2^16 + w.lo.
BigFromWide(w) ==
  BigNorm(<<w.lo % Limb, (w.lo \div Limb) + 2 * (w.hi % (Limb \div 2)),
            (w.hi \div (Limb \div 2)) % Limb, w.hi \div (Limb * (Limb \div 2))>>)

\* a * k + c for a small k and c (0 <= k, c < 2^15).
RECURSIVE BigMulSmall(_, _, _)
BigMulSmall(a, k, c) ==
  IF a = <<>> THEN (IF c = 0 THEN <<>> ELSE <<c>>)
  ELSE LET t == Head(a) * k + c
       IN <<t % Limb>> \o BigMulSmall(Tail(a), k, t \div Limb)

\* a + b + c, c a carry of 0 or 1.
RECURSIVE BigAddC(_, _, _)
BigAddC(a, b, c) ==
  IF a = <<>> /\ b = <<>> THEN (IF c = 0 THEN <<>> ELSE <<c>>)
  ELSE LET x == IF a = <<>> THEN 0 ELSE Head(a)
           y == IF b = <<>> THEN 0 ELSE Head(b)
           t == x + y + c
       IN <<t % Limb>> \o BigAddC(IF a = <<>> THEN a ELSE Tail(a),
                                  IF b = <<>> THEN b ELSE Tail(b), t \div Limb)

BigAdd(a, b) == BigAddC(a, b, 0)

\* a - b - c for a >= b + c, c a borrow of 0 or 1; not normalised.
RECURSIVE BigSubC(_, _, _)
BigSubC(a, b, c) ==
  IF a = <<>> THEN <<>>
  ELSE LET y == IF b = <<>> THEN 0 ELSE Head(b)
           t == Head(a) - y - c
       IN <<t % Limb>> \o BigSubC(Tail(a), IF b = <<>> THEN b ELSE Tail(b),
                                  IF t < 0 THEN 1 ELSE 0)

BigSub(a, b) == BigNorm(BigSubC(a, b, 0))

\* a < b, for normalised a and b.
RECURSIVE BigLess(_, _)
BigLess(a, b) ==
  IF Len(a) # Len(b) THEN Len(a) < Len(b)
  ELSE IF a = <<>> THEN FALSE
  ELSE IF a[Len(a)] # b[Len(b)] THEN a[Len(a)] < b[Len(b)]
  ELSE BigLess(SubSeq(a, 1, Len(a) - 1), SubSeq(b, 1, Len(b) - 1))

\* a * b.
RECURSIVE BigMul(_, _)
BigMul(a, b) ==
  IF a = <<>> \/ b = <<>> THEN <<>>
  ELSE BigAdd(BigMulSmall(b, Head(a), 0), <<0>> \o BigMul(Tail(a), b))

\* a * 2^n.
BigShl(a, n) ==
  IF a = <<>> THEN <<>>
  ELSE [k \in 1..(n \div LimbBits) |-> 0] \o BigMulSmall(a, 2 ^ (n % LimbBits), 0)

\* The number of bits of a normalised a (0 for 0).
BigBits(a) ==
  IF a = <<>> THEN 0
  ELSE LimbBits * (Len(a) - 1)
         + (CHOOSE k \in 1..LimbBits : 2 ^ (k - 1) <= a[Len(a)] /\ a[Len(a)] < 2 ^ k)

\* Bit i of a.
BigBit(a, i) ==
  IF i \div LimbBits >= Len(a) THEN 0 ELSE Bit(a[(i \div LimbBits) + 1], i % LimbBits)

\* floor(a / 2^n).
BigShr(a, n) ==
  LET dropped == IF n \div LimbBits >= Len(a) THEN <<>>
                 ELSE SubSeq(a, (n \div LimbBits) + 1, Len(a))
      s == n % LimbBits
  IN BigNorm([k \in 1..Len(dropped) |->
                (dropped[k] \div (2 ^ s))
                  + (IF k < Len(dropped) THEN (dropped[k + 1] % (2 ^ s)) * (2 ^ (LimbBits - s))
                     ELSE 0)])

\* floor(r / d) for r < d * 2^bits: one limb of a quotient, found bit by bit
\* from the top.
RECURSIVE BigDigit(_, _, _)
BigDigit(r, d, bits) ==
  IF bits = 0 THEN 0
  ELSE LET c == BigMulSmall(d, 2 ^ (bits - 1), 0)
       IN IF BigLess(r, c) THEN BigDigit(r, d, bits - 1)
          ELSE 2 ^ (bits - 1) + BigDigit(BigSub(r, c), d, bits - 1)

\* The quotient limb t put after the quotient limbs of the limbs below it.
BigDivPut(rest, t) == [q |-> Append(rest.q, t), r |-> rest.r]

\* Long division of the low k limbs of n, r < d being the remainder of the
\* limbs above them: the k limbs of the quotient and the remainder. Limb k
\* is brought down to give rr, t is the quotient limb of rr by d, and the
\* division goes on below with rr - d * t.
RECURSIVE BigDivLimbs(_, _, _, _)
RECURSIVE BigDivFrom(_, _, _, _)
RECURSIVE BigDivWith(_, _, _, _, _)
BigDivLimbs(n, d, k, r) ==
  IF k = 0 THEN [q |-> <<>>, r |-> r]
  ELSE BigDivFrom(n, d, k, BigNorm(<<n[k]>> \o r))

BigDivFrom(n, d, k, rr) == BigDivWith(n, d, k, rr, BigDigit(rr, d, LimbBits))

BigDivWith(n, d, k, rr, t) ==
  BigDivPut(BigDivLimbs(n, d, k - 1, BigSub(rr, BigMulSmall(d, t, 0))), t)

BigDivNorm(qr) == [q |-> BigNorm(qr.q), r |-> qr.r]

\* The quotient and remainder of n by d > 0.
BigDivMod(n, d) == BigDivNorm(BigDivLimbs(n, d, Len(n), <<>>))

\* Rounding, last step: the quotient q, twice its remainder and the divisor
\* dd; up when the remainder is above half of dd, or is half and q is odd.
FRoundUp(neg, q, twice, dd, e) ==
  [neg |-> neg,
   m |-> IF BigLess(dd, twice) \/ (twice = dd /\ BigBit(q, 0) = 1)
         THEN BigAdd(q, <<1>>) ELSE q,
   e |-> e]

FRoundTies(neg, q, r, dd, e) == FRoundUp(neg, q, BigMulSmall(r, 2, 0), dd, e)

\* Rounding a quotient qr of 53 or 54 bits by d1: a 54-bit quotient loses
\* its low bit to the remainder.
FRoundQuot(neg, qr, d1, e) ==
  IF BigBits(qr.q) > SignificandBits
  THEN FRoundTies(neg, BigShr(qr.q, 1),
                  IF BigBit(qr.q, 0) = 1 THEN BigAdd(d1, qr.r) ELSE qr.r,
                  BigMulSmall(d1, 2, 0), e + 1)
  ELSE FRoundTies(neg, qr.q, qr.r, d1, e)

FRoundScaled(neg, n1, d1, e) == FRoundQuot(neg, BigDivMod(n1, d1), d1, e)

\* n or d scaled by 2^|e0| so that the quotient has 53 or 54 bits.
FRoundAt(neg, n, d, e, e0) ==
  FRoundScaled(neg, IF e0 < 0 THEN BigShl(n, -e0) ELSE n,
               IF e0 > 0 THEN BigShl(d, e0) ELSE d, e0 + e)

\* The double nearest to (n / d) * 2^e, ties to even, with sign neg (n, d
\* natural numbers, d > 0; the values met here are far from overflow and
\* from the subnormal range).
FRound(neg, n, d, e) ==
  IF n = <<>> THEN [neg |-> neg, m |-> <<>>, e |-> 0]
  ELSE FRoundAt(neg, n, d, e, BigBits(n) - BigBits(d) - SignificandBits)

\* float(n) of an int n, |n| < 2^31: exact.
FFromInt(n) == [neg |-> n < 0, m |-> BigFromInt(IF n < 0 THEN -n ELSE n), e |-> 0]

\* float(w) of a non-negative wide integer below 2^53: exact.
FFromWide(w) == [neg |-> FALSE, m |-> BigFromWide(w), e |-> 0]

\* x * y
FMul(x, y) == FRound(x.neg # y.neg, BigMul(x.m, y.m), <<1>>, x.e + y.e)

\* x / y, y not 0
FDiv(x, y) == FRound(x.neg # y.neg, x.m, y.m, x.e - y.e)

\* The sum of two numbers of signs xneg and yneg and magnitudes xm * 2^e
\* and ym * 2^e.
FAddAligned(xneg, xm, yneg, ym, e) ==
  FRound(IF xneg = yneg THEN xneg
         ELSE IF BigLess(xm, ym) THEN yneg ELSE xneg /\ xm # ym,
         IF xneg = yneg THEN BigAdd(xm, ym)
         ELSE IF BigLess(xm, ym) THEN BigSub(ym, xm) ELSE BigSub(xm, ym),
         <<1>>, e)

FAddAt(x, y, e) ==
  FAddAligned(x.neg, BigShl(x.m, x.e - e), y.neg, BigShl(y.m, y.e - e), e)

\* x + y
FAdd(x, y) == FAddAt(x, y, IF x.e < y.e THEN x.e ELSE y.e)

\* The literal 3.14159: the double nearest to 314159 / 100000.
Float_3_14159 == FRound(FALSE, BigFromInt(314159), BigFromInt(100000), 0)

\* The wide integer of the natural number a, a < 2^45.
BigToWide(a) ==
  LET l == [k \in 1..3 |-> IF k <= Len(a) THEN a[k] ELSE 0]
  IN Wide((l[2] \div 2) + l[3] * (Limb \div 2), l[1] + (l[2] % 2) * Limb)

\* -w for a wide integer w >= 0.
WideNeg(w) == IF w.lo = 0 THEN Wide(-w.hi, 0) ELSE Wide(-w.hi - 1, Word - w.lo)

FTruncSigned(neg, w) == IF neg THEN WideNeg(w) ELSE w

\* int(x) of a float x: the integer part, toward zero.
FTrunc(x) ==
  FTruncSigned(x.neg, BigToWide(IF x.e >= 0 THEN BigShl(x.m, x.e)
                                ELSE BigShr(x.m, -x.e)))


\* ------------------------------------------------------------------ inputs

\* The callers (threads or tasks) that share one drive.
Callers == {"a", "b"}

\* Control words the drive may hold when the program starts.
InitControlWords == {0, 95, 65535}

\* Status words (register 1001) the device may report: nothing set, bit 5
\* set, bit 10 set.
StatusWords == {0, 32, 1024}

\* move's position arguments: 1000, -2^31, 2^31 and -2^31 - 1.
Positions == {Wide(0, 1000), Wide(-32768, 0), Wide(32768, 0), Wide(-32769, 65535)}

CoordinateSystems == {"absolute", "relative"}

Timeouts == 0..MaxTimeout

\* rotate's angle arguments, <<angle, units>>, whole numbers.
Angles == {<<180, "deg">>, <<270, "deg">>, <<-1, "rad">>}

\* Values register 1081 (steps per revolution) may hold.
StepRevolutions == {12800}

\* Values registers 1004-1005 (actual position) may hold, <<low, high>>:
\* 100 and -100.
ActualPositions == {<<100, 0>>, <<65436, 65535>>}

\* The raw words the codecs are run on: no bit, each single bit, mixed
\* patterns, every bit.
CodecWords == {0, 95, 21845, 43690, 65535} \cup {2 ^ i : i \in 0..(WordBits - 1)}

\* ------------------------------------------------------------------- state

VARIABLES
  ctrl,     \* register 1040, the control word
  target,   \* registers 1042-1043, the target position, <<low, high>>
  now,      \* time.time(), in ticks
  faults,   \* how many more transport calls the transport may fail
  left,     \* left[p]: how many more calls caller p makes
  pc,       \* pc[p]: the statement caller p is at
  call,     \* call[p]: the operation caller p runs and its arguments
  loc,      \* loc[p]: the local variables of caller p's operation
  ret,      \* ret[p]: how caller p's operation ended
  log,      \* log[p]: the transport calls of caller p's operation, in order
  past      \* past[p]: caller p's earlier operations, in order

vars == <<ctrl, target, now, faults, left, pc, call, loc, ret, log, past>>

NoControl == [is_int |-> TRUE, int |-> 0, cw |-> <<>>]

NoCall ==
  [op |-> "none", position |-> Wide(0, 0), cs |-> "relative",
   change_setpoint_immediately |-> FALSE, wait_for_target_reached |-> FALSE,
   timeout |-> 0, angle |-> 0, units |-> "rad", bit |-> 0, value |-> FALSE,
   bits |-> <<>>, control |-> NoControl, velocity |-> Wide(0, 0)]

NoLoc ==
  [control_word |-> 0, bit |-> 0, value |-> FALSE, bits |-> <<>>,
   target_position |-> Wide(0, 0), steps_per_revolution |-> 0,
   deadline |-> 0, target_reached |-> FALSE,
   raw |-> 0, control |-> <<>>, status |-> <<>>, position |-> Wide(0, 0)]

\* The state after construction: no operation runs, the drive holds some
\* control word, and caller `a` alone makes one call.
Init ==
  /\ ctrl \in InitControlWords
  /\ target = <<0, 0>>
  /\ now = 0
  /\ faults = MaxFaults
  /\ left = [p \in Callers |-> IF p = "a" THEN 1 ELSE 0]
  /\ pc = [p \in Callers |-> "idle"]
  /\ call = [p \in Callers |-> NoCall]
  /\ loc = [p \in Callers |-> NoLoc]
  /\ ret = [p \in Callers |-> "none"]
  /\ log = [p \in Callers |-> <<>>]
  /\ past = [p \in Callers |-> <<>>]

\* --------------------------------------------------------------- transport

\* What a transport call may do: succeed, raise ModbusException, or return
\* an error response (which has no .registers).
Outcomes == IF faults > 0 THEN {"ok", "raise", "error_response"} ELSE {"ok"}

Read(addr, o, registers) ==
  [op |-> "read", addr |-> addr, ok |-> o = "ok",
   val |-> IF o = "ok" THEN registers ELSE <<>>]

Write(addr, o, registers) ==
  [op |-> "write", addr |-> addr, ok |-> o = "ok", val |-> registers]

\* Caller p goes on: to statement `newpc` with locals `newloc`, its
\* operation's result so far `newret`, having made transport calls `entries`
\* of which the one with outcome o may have failed.
Goes(p, o, newpc, newloc, newret, entries) ==
  /\ faults' = IF o = "ok" THEN faults ELSE faults - 1
  /\ pc' = [pc EXCEPT ![p] = newpc]
  /\ loc' = [loc EXCEPT ![p] = newloc]
  /\ ret' = [ret EXCEPT ![p] = newret]
  /\ log' = [log EXCEPT ![p] = @ \o entries]
  /\ UNCHANGED <<now, left, call, past>>

\* Caller p starts operation c with locals l at statement `first`; the
\* operation it has finished, if any, joins its earlier operations.
Starts(p, c, l, first) ==
  /\ pc[p] \in {"idle", "done"}
  /\ left[p] > 0
  /\ left' = [left EXCEPT ![p] = @ - 1]
  /\ call' = [call EXCEPT ![p] = c]
  /\ loc' = [loc EXCEPT ![p] = l]
  /\ pc' = [pc EXCEPT ![p] = first]
  /\ ret' = [ret EXCEPT ![p] = "running"]
  /\ log' = [log EXCEPT ![p] = <<>>]
  /\ past' = [past EXCEPT ![p] =
                IF pc[p] = "done"
                THEN Append(@, [call |-> call[p], ret |-> ret[p], log |-> log[p]])
                ELSE @]
  /\ UNCHANGED <<ctrl, target, now, faults>>


\* -------------------------------------------------------------- operations

\* The value a finished move or rotate returns: move ends in a bare
\* `return` on both paths, rotate in `return False` on the deadline path and
\* `return True` otherwise.
Returned(op, timed_out) ==
  IF op = "rotate" THEN (IF timed_out THEN "False" ELSE "True") ELSE "None"

\* AfterBits with the target write left out of move and rotate.
AfterBitsSkipsTarget(c, l) ==
  IF c.op \in {"move", "rotate"}
  THEN [pc |-> "bit_read", loc |-> [l EXCEPT !.bit = 4, !.value = TRUE],
        ret |-> "running"]
  ELSE [pc |-> "done", loc |-> l, ret |-> "None"]

\* The statement after set_control_word_bits(...) has returned to its caller.
AfterBits(c, l) ==
  IF c.op \in {"move", "rotate"}
  THEN [pc |-> "set_target_position", loc |-> l, ret |-> "running"]
  ELSE [pc |-> "done", loc |-> l, ret |-> "None"]

\* AfterBit with halt ending after its first call: bit 8 stays set.
AfterBitHaltOnce(c, l, t) ==
  IF c.op \in {"move", "rotate"} /\ c.wait_for_target_reached
  THEN [pc |-> "poll",
        loc |-> [l EXCEPT !.target_reached = FALSE, !.deadline = t + c.timeout],
        ret |-> "running"]
  ELSE [pc |-> "done", loc |-> l, ret |-> Returned(c.op, FALSE)]

\* The statement after set_control_word_bit(...) has returned to its caller:
\* halt makes its second call, move and rotate enter the wait loop
\* (target_reached = False; timeout = time.time() + timeout) or return.
AfterBit(c, l, t) ==
  IF c.op = "halt" /\ l.value
  THEN [pc |-> "bit_read", loc |-> [l EXCEPT !.bit = 8, !.value = FALSE],
        ret |-> "running"]
  ELSE IF c.op \in {"move", "rotate"} /\ c.wait_for_target_reached
  THEN [pc |-> "poll",
        loc |-> [l EXCEPT !.target_reached = FALSE, !.deadline = t + c.timeout],
        ret |-> "running"]
  ELSE [pc |-> "done", loc |-> l, ret |-> Returned(c.op, FALSE)]

\* move(position, cs, change_setpoint_immediately, wait_for_target_reached,
\* timeout): its first statement is
\* set_control_word_bits({4: False, 5: change_setpoint_immediately,
\*                        6: cs == "relative"}).
Move(p, position, cs, csi, wait, timeout) ==
  Starts(p,
         [NoCall EXCEPT !.op = "move", !.position = position, !.cs = cs,
                        !.change_setpoint_immediately = csi,
                        !.wait_for_target_reached = wait, !.timeout = timeout],
         [NoLoc EXCEPT !.target_position = position,
                       !.bits = <<<<4, FALSE>>, <<5, csi>>, <<6, cs = "relative">>>>],
         "bits_read")

\* halt(): set_control_word_bit(8, True), then set_control_word_bit(8, False).
Halt(p) ==
  Starts(p, [NoCall EXCEPT !.op = "halt"],
         [NoLoc EXCEPT !.bit = 8, !.value = TRUE], "bit_read")

\* A direct call of set_control_word_bit(bit, value).
SetControlWordBit(p, bit, value) ==
  Starts(p, [NoCall EXCEPT !.op = "set_control_word_bit", !.bit = bit, !.value = value],
         [NoLoc EXCEPT !.bit = bit, !.value = value], "bit_read")

\* A direct call of set_control_word_bits(bits).
SetControlWordBits(p, bits) ==
  Starts(p, [NoCall EXCEPT !.op = "set_control_word_bits", !.bits = bits],
         [NoLoc EXCEPT !.bits = bits], "bits_read")

\* AfterRead with the except clause around the read alone: after a failed
\* read the primitive still writes its (stale) control_word.
AfterReadWritesAnyway(o, writepc, l, computed, n) ==
  CASE o = "ok" ->
         [pc |-> writepc, loc |-> [l EXCEPT !.control_word = computed],
          ret |-> "running"]
    [] o = "raise" -> [pc |-> writepc, loc |-> l, ret |-> "running"]
    [] OTHER -> [pc |-> "done", loc |-> l, ret |-> "AttributeError"]

\* What follows the control-word read of a bit-set primitive, whose body is
\*   try: control_word = self.get_control_word()[0]; ...; self.set_control_word(...)
\*   except ModbusException as e: logger.error(...)
\* With the word read, the primitive goes on to its write (at `writepc`) of
\* the word computed. A raised ModbusException is caught and logged by the
\* except clause, and the primitive returns None to its caller, who goes on
\* as n says. An error response has no .registers: the AttributeError is not
\* caught and leaves the operation.
AfterRead(o, writepc, l, computed, n) ==
  CASE o = "ok" ->
         [pc |-> writepc, loc |-> [l EXCEPT !.control_word = computed],
          ret |-> "running"]
    [] o = "raise" -> n
    [] OTHER -> [pc |-> "done", loc |-> l, ret |-> "AttributeError"]

\* set_control_word_bits, up to its write: control_word =
\* self.get_control_word()[0], then the loop over bits.items().
SetControlWordBitsRead(p) ==
  /\ pc[p] = "bits_read"
  /\ \E o \in Outcomes :
       LET n == AfterRead(o, "bits_write", loc[p], SetBits(ctrl, loc[p].bits),
                          AfterBits(call[p], loc[p]))
       IN Goes(p, o, n.pc, n.loc, n.ret, <<Read(REG_CONTROL_WORD, o, <<ctrl>>)>>)
  /\ UNCHANGED <<ctrl, target>>

\* set_control_word_bits, its write: self.set_control_word(control_word) with
\* an int writes it to register 1040. set_control_word catches and logs a
\* raised ModbusException and ignores the response, so the caller goes on
\* whatever the outcome.
SetControlWordBitsWrite(p) ==
  /\ pc[p] = "bits_write"
  /\ \E o \in Outcomes :
       LET n == AfterBits(call[p], loc[p])
       IN /\ Goes(p, o, n.pc, n.loc, n.ret,
                  <<Write(REG_CONTROL_WORD, o, <<loc[p].control_word>>)>>)
          /\ ctrl' = IF o = "ok" THEN loc[p].control_word ELSE ctrl
          /\ UNCHANGED target

\* The statement after set_target_position(...) has returned to its caller:
\* in move and rotate, set_control_word_bit(4, True).
AfterTarget(c, l) ==
  IF c.op \in {"move", "rotate"}
  THEN [pc |-> "bit_read", loc |-> [l EXCEPT !.bit = 4, !.value = TRUE],
        ret |-> "running"]
  ELSE [pc |-> "done", loc |-> l, ret |-> "None"]

\* set_target_position(position): a ValueError outside the signed 32-bit
\* range, before the write; otherwise registers 1042-1043 are written with
\* (lsb, msb). A raised ModbusException is caught and logged.
SetTargetPosition(p) ==
  /\ pc[p] = "set_target_position"
  /\ IF OutOfInt32(loc[p].target_position)
     THEN /\ Goes(p, "ok", "done", loc[p], "ValueError", <<>>)
          /\ UNCHANGED <<ctrl, target>>
     ELSE \E o \in Outcomes :
            LET regs == int32_to_uint16(loc[p].target_position)
                n == AfterTarget(call[p], loc[p])
            IN /\ Goes(p, o, n.pc, n.loc, n.ret,
                       <<Write(REG_TARGET_POSITION, o, regs)>>)
               /\ target' = IF o = "ok" THEN regs ELSE target
               /\ UNCHANGED ctrl

\* set_control_word_bit, up to its write: control_word =
\* self.get_control_word()[0]; control_word ^= (-value ^ control_word) & (1 << bit).
SetControlWordBitRead(p) ==
  /\ pc[p] = "bit_read"
  /\ \E o \in Outcomes :
       LET n == AfterRead(o, "bit_write", loc[p],
                          SetBit(ctrl, loc[p].bit, loc[p].value),
                          AfterBit(call[p], loc[p], now))
       IN Goes(p, o, n.pc, n.loc, n.ret, <<Read(REG_CONTROL_WORD, o, <<ctrl>>)>>)
  /\ UNCHANGED <<ctrl, target>>

\* set_control_word_bit, its write: self.set_control_word(control_word).
SetControlWordBitWrite(p) ==
  /\ pc[p] = "bit_write"
  /\ \E o \in Outcomes :
       LET n == AfterBit(call[p], loc[p], now)
       IN /\ Goes(p, o, n.pc, n.loc, n.ret,
                  <<Write(REG_CONTROL_WORD, o, <<loc[p].control_word>>)>>)
          /\ ctrl' = IF o = "ok" THEN loc[p].control_word ELSE ctrl
          /\ UNCHANGED target


\* DeadlinePassed one tick late.
DeadlinePassedLate(t, deadline) == t > deadline + 1

\* time.time() > timeout, the deadline test of the wait loops.
DeadlinePassed(t, deadline) == t > deadline

\* AfterPoll with a failed status read swallowed: the loop polls again.
AfterPollRetries(o, op, reached, t, deadline) ==
  CASE o # "ok" /\ DeadlinePassed(t, deadline) ->
         [pc |-> "done", ret |-> Returned(op, TRUE)]
    [] o = "ok" /\ DeadlinePassed(t, deadline) ->
         [pc |-> "done", ret |-> Returned(op, TRUE)]
    [] o = "ok" /\ ~DeadlinePassed(t, deadline) /\ reached ->
         [pc |-> "done", ret |-> Returned(op, FALSE)]
    [] OTHER -> [pc |-> "poll", ret |-> "running"]

\* AfterPoll with the loop left on target_reached before the deadline test.
AfterPollReachedFirst(o, op, reached, t, deadline) ==
  CASE o = "raise" -> [pc |-> "done", ret |-> "ModbusException"]
    [] o = "error_response" -> [pc |-> "done", ret |-> "AttributeError"]
    [] o = "ok" /\ reached -> [pc |-> "done", ret |-> Returned(op, FALSE)]
    [] o = "ok" /\ DeadlinePassed(t, deadline) ->
         [pc |-> "done", ret |-> Returned(op, TRUE)]
    [] OTHER -> [pc |-> "poll", ret |-> "running"]

\* How one pass of the wait loop ends, status read with outcome o:
\*   sw = self.get_status_word(); target_reached = sw[1].target_reached
\*   if time.time() > timeout: return [False]
\* and then the loop test `while not target_reached`. get_status_word has no
\* except clause and the loop no try: a raised ModbusException, or the
\* AttributeError of an error response, leaves the operation.
AfterPoll(o, op, reached, t, deadline) ==
  CASE o = "raise" -> [pc |-> "done", ret |-> "ModbusException"]
    [] o = "error_response" -> [pc |-> "done", ret |-> "AttributeError"]
    [] o = "ok" /\ DeadlinePassed(t, deadline) ->
         [pc |-> "done", ret |-> Returned(op, TRUE)]
    [] o = "ok" /\ ~DeadlinePassed(t, deadline) /\ reached ->
         [pc |-> "done", ret |-> Returned(op, FALSE)]
    [] OTHER -> [pc |-> "poll", ret |-> "running"]

\* One pass of the wait loop of move (and of rotate, whose loop is the same
\* but for the returned values). get_status_word reads register 1001 and
\* names the bits of to_bits_list(raw) with STATUS_WORD._make. The log keeps
\* one entry for a run of successive status reads, the latest.
GetStatusWord(p) ==
  /\ pc[p] = "poll"
  /\ \E o \in Outcomes, sw \in StatusWords :
       LET reached == STATUS_WORD(to_bits_list(sw))["target_reached"]
           e == Read(REG_STATUS_WORD, o, <<sw>>)
           polled == log[p] # <<>> /\ log[p][Len(log[p])].addr = REG_STATUS_WORD
           n == AfterPoll(o, call[p].op, reached, now, loc[p].deadline)
       IN /\ faults' = IF o = "ok" THEN faults ELSE faults - 1
          /\ log' = [log EXCEPT ![p] =
                       IF polled THEN [@ EXCEPT ![Len(@)] = e] ELSE Append(@, e)]
          /\ pc' = [pc EXCEPT ![p] = n.pc]
          /\ ret' = [ret EXCEPT ![p] = n.ret]
          /\ loc' = [loc EXCEPT ![p] =
                       IF o = "ok" THEN [@ EXCEPT !.target_reached = reached] ELSE @]
          /\ UNCHANGED <<ctrl, target, now, left, call, past>>

\* The clock advances. It stops at MaxNow, except that it goes on while a
\* wait loop's deadline has not passed.
Tick ==
  /\ \/ now < MaxNow
     \/ \E p \in Callers : pc[p] = "poll" /\ ~DeadlinePassed(now, loc[p].deadline)
  /\ now' = now + 1
  /\ UNCHANGED <<ctrl, target, faults, left, pc, call, loc, ret, log, past>>

\* rotate: if units == "deg": angle = angle * 3.14159 / 180
RotateAngle(angle, units) ==
  IF units = "deg" THEN FDiv(FMul(FFromInt(angle), Float_3_14159), FFromInt(180))
  ELSE FFromInt(angle)

\* rotate: angle * steps_per_revolution / (2 * 3.14159)
RotateSteps(angle, units, steps_per_revolution) ==
  FDiv(FMul(RotateAngle(angle, units), FFromInt(steps_per_revolution)),
       FMul(FFromInt(2), Float_3_14159))

\* target_position = int(angle * steps_per_revolution / (2 * 3.14159))
RelativeTarget(angle, units, steps_per_revolution) ==
  FTrunc(RotateSteps(angle, units, steps_per_revolution))

\* target_position = int(current_position + angle * steps_per_revolution /
\* (2 * 3.14159)), current_position being merge_registers' (non-negative)
\* value.
AbsoluteTarget(current_position, angle, units, steps_per_revolution) ==
  FTrunc(FAdd(FFromWide(current_position),
              RotateSteps(angle, units, steps_per_revolution)))

\* The relative targets of the rotations made, each computed once.
RelativeTargets ==
  [a \in Angles, steps \in StepRevolutions |-> RelativeTarget(a[1], a[2], steps)]

\* The absolute targets of the rotations made from the positions the drive
\* reports, each computed once.
AbsoluteTargets ==
  [regs \in ActualPositions, a \in Angles, steps \in StepRevolutions |->
     AbsoluteTarget(merge_registers(regs), a[1], a[2], steps)]

\* Rotate with change_setpoint_immediately left at its default in the
\* control-word request.
RotateIgnoresFlag(p, angle, units, cs, csi, wait, timeout) ==
  Starts(p,
         [NoCall EXCEPT !.op = "rotate", !.angle = angle, !.units = units,
                        !.cs = cs, !.change_setpoint_immediately = csi,
                        !.wait_for_target_reached = wait, !.timeout = timeout],
         [NoLoc EXCEPT !.bits = <<<<4, FALSE>>, <<5, FALSE>>, <<6, cs = "relative">>>>],
         "get_step_revolution")

\* rotate(angle, cs, units, change_setpoint_immediately,
\* wait_for_target_reached, timeout): its first transport call is
\* get_step_revolution().
Rotate(p, angle, units, cs, csi, wait, timeout) ==
  Starts(p,
         [NoCall EXCEPT !.op = "rotate", !.angle = angle, !.units = units,
                        !.cs = cs, !.change_setpoint_immediately = csi,
                        !.wait_for_target_reached = wait, !.timeout = timeout],
         [NoLoc EXCEPT !.bits = <<<<4, FALSE>>, <<5, csi>>, <<6, cs = "relative">>>>],
         "get_step_revolution")

\* rotate: steps_per_revolution = self.get_step_revolution() reads register
\* 1081 with no except clause; for relative motion the target is computed
\* and set_control_word_bits follows, otherwise get_actual_position.
GetStepRevolution(p) ==
  /\ pc[p] = "get_step_revolution"
  /\ \E o \in Outcomes, steps \in StepRevolutions :
       LET e == <<Read(REG_STEP_REVOLUTION, o, <<steps>>)>>
           c == call[p]
       IN CASE o = "raise" -> Goes(p, o, "done", loc[p], "ModbusException", e)
            [] o = "error_response" -> Goes(p, o, "done", loc[p], "AttributeError", e)
            [] o = "ok" /\ c.cs = "relative" ->
                 Goes(p, o, "bits_read",
                      [loc[p] EXCEPT !.steps_per_revolution = steps,
                                     !.target_position =
                                        RelativeTargets[<<c.angle, c.units>>, steps]],
                      "running", e)
            [] OTHER ->
                 Goes(p, o, "get_actual_position",
                      [loc[p] EXCEPT !.steps_per_revolution = steps], "running", e)
  /\ UNCHANGED <<ctrl, target>>

\* GetActualPosition with a failed read taken as position 0: rotate goes on
\* to its move sequence.
GetActualPositionOrZero(p) ==
  /\ pc[p] = "get_actual_position"
  /\ \E o \in Outcomes, regs \in ActualPositions :
       Goes(p, o, "bits_read",
            [loc[p] EXCEPT !.target_position =
               AbsoluteTarget(IF o = "ok" THEN merge_registers(regs) ELSE Wide(0, 0),
                              call[p].angle, call[p].units,
                              loc[p].steps_per_revolution)],
            "running", <<Read(REG_ACTUAL_POSITION, o, regs)>>)
  /\ UNCHANGED <<ctrl, target>>

\* rotate, absolute motion: current_position = self.get_actual_position()
\* reads registers 1004-1005 and merges them; then the target is computed.
GetActualPosition(p) ==
  /\ pc[p] = "get_actual_position"
  /\ \E o \in Outcomes, regs \in ActualPositions :
       LET e == <<Read(REG_ACTUAL_POSITION, o, regs)>>
           c == call[p]
       IN CASE o = "raise" -> Goes(p, o, "done", loc[p], "ModbusException", e)
            [] o = "error_response" -> Goes(p, o, "done", loc[p], "AttributeError", e)
            [] OTHER ->
                 Goes(p, o, "bits_read",
                      [loc[p] EXCEPT !.target_position =
                         AbsoluteTargets[regs, <<c.angle, c.units>>,
                                         loc[p].steps_per_revolution]],
                      "running", e)
  /\ UNCHANGED <<ctrl, target>>


\* A direct call of get_control_word().
GetControlWord(p) ==
  Starts(p, [NoCall EXCEPT !.op = "get_control_word"], NoLoc, "get_control_word")

\* get_control_word: reads register 1040 and returns (raw, CONTROL_WORD(*bits))
\* with bits = to_bits_list(raw); no except clause. The returned pair stays
\* with the caller as loc.raw and loc.control.
GetControlWordRead(p) ==
  /\ pc[p] = "get_control_word"
  /\ \E o \in Outcomes :
       LET e == <<Read(REG_CONTROL_WORD, o, <<ctrl>>)>>
       IN CASE o = "raise" -> Goes(p, o, "done", loc[p], "ModbusException", e)
            [] o = "error_response" -> Goes(p, o, "done", loc[p], "AttributeError", e)
            [] OTHER ->
                 Goes(p, o, "done",
                      [loc[p] EXCEPT !.raw = ctrl,
                                     !.control =
                                        FieldValues(CONTROL_WORD(to_bits_list(ctrl)))],
                      "tuple", e)
  /\ UNCHANGED <<ctrl, target>>

\* A direct call of set_control_word(control), control an int or a
\* CONTROL_WORD; the caller keeps what its last get_control_word returned.
SetControlWord(p, control) ==
  Starts(p, [NoCall EXCEPT !.op = "set_control_word", !.control = control],
         [NoLoc EXCEPT !.raw = loc[p].raw, !.control = loc[p].control],
         "set_control_word")

\* set_control_word: an int is written as it is; a CONTROL_WORD is encoded
\* first, and the ValueError of int(..., 2) is not a ModbusException, so it
\* leaves the function before the write.
SetControlWordWrite(p) ==
  /\ pc[p] = "set_control_word"
  /\ LET control == call[p].control
         enc == IF control.is_int THEN [ok |-> TRUE, value |-> control.int]
                ELSE EncodeControlWord(CONTROL_WORD(control.cw))
     IN IF ~enc.ok
        THEN /\ Goes(p, "ok", "done", loc[p], "ValueError", <<>>)
             /\ UNCHANGED <<ctrl, target>>
        ELSE \E o \in Outcomes :
               /\ Goes(p, o, "done", loc[p], "None",
                       <<Write(REG_CONTROL_WORD, o, <<enc.value>>)>>)
               /\ ctrl' = IF o = "ok" THEN enc.value ELSE ctrl
               /\ UNCHANGED target

\* The power-stage methods that are one set_control_word_bit(bit, value)
\* inside try / except ModbusException, as <<bit, value>>. The second
\* definition named disable_operation_async is a plain method and replaces
\* the coroutine of that name.
PowerStageBits ==
  [switch_on |-> <<0, TRUE>>,
   enable_voltage |-> <<1, TRUE>>, disable_voltage |-> <<1, FALSE>>,
   quick_stop |-> <<2, TRUE>>, release_quick_stop |-> <<2, FALSE>>,
   enable_operation |-> <<3, TRUE>>, disable_operation_async |-> <<3, FALSE>>]

\* A call of one of these methods. set_control_word_bit lets no
\* ModbusException out, so the method's own except clause never runs.
PowerStage(p, name) ==
  Starts(p, [NoCall EXCEPT !.op = name, !.bit = PowerStageBits[name][1],
                           !.value = PowerStageBits[name][2]],
         [NoLoc EXCEPT !.bit = PowerStageBits[name][1],
                       !.value = PowerStageBits[name][2]], "bit_read")

\* A call of disable_operation(): the class defines no method of that name,
\* so the attribute lookup raises AttributeError and no transport call is
\* made.
DisableOperation(p) ==
  /\ pc[p] \in {"idle", "done"}
  /\ left[p] > 0
  /\ left' = [left EXCEPT ![p] = @ - 1]
  /\ call' = [call EXCEPT ![p] = [NoCall EXCEPT !.op = "disable_operation"]]
  /\ loc' = [loc EXCEPT ![p] = NoLoc]
  /\ pc' = [pc EXCEPT ![p] = "done"]
  /\ ret' = [ret EXCEPT ![p] = "AttributeError"]
  /\ log' = [log EXCEPT ![p] = <<>>]
  /\ past' = [past EXCEPT ![p] =
                IF pc[p] = "done"
                THEN Append(@, [call |-> call[p], ret |-> ret[p], log |-> log[p]])
                ELSE @]
  /\ UNCHANGED <<ctrl, target, now, faults>>

\* A call of switch_off().
SwitchOff(p) ==
  Starts(p, [NoCall EXCEPT !.op = "switch_off"], NoLoc, "switch_off")

\* __del__ without its switch_off() call.
DelWithoutSwitchOff(p) == Starts(p, [NoCall EXCEPT !.op = "__del__"], NoLoc, "done")

\* The drive handle is destroyed: __del__ prints and calls switch_off().
Del(p) == Starts(p, [NoCall EXCEPT !.op = "__del__"], NoLoc, "switch_off")

\* How the operation ends once switch_off() has returned. In __del__ the
\* next statement is self.client.close(): __init__ sets client_sync only, so
\* the lookup of self.client raises AttributeError and
\* self.client_sync.close() is not reached.
AfterSwitchOff(c) == IF c.op = "__del__" THEN "AttributeError" ELSE "None"

\* SwitchOffWrite as switch_off_async does it, writing the control word with
\* bit 0 cleared.
SwitchOffClearsBit(p) ==
  /\ pc[p] = "switch_off"
  /\ \E o \in Outcomes :
       /\ Goes(p, o, "done", loc[p], AfterSwitchOff(call[p]),
               <<Write(REG_CONTROL_WORD, o, <<SetBit(ctrl, 0, FALSE)>>)>>)
       /\ ctrl' = IF o = "ok" THEN SetBit(ctrl, 0, FALSE) ELSE ctrl
       /\ UNCHANGED target

\* switch_off: self.client_sync.write_register(1040, 0), a raised
\* ModbusException caught and logged, the response not looked at.
SwitchOffWrite(p) ==
  /\ pc[p] = "switch_off"
  /\ \E o \in Outcomes :
       /\ Goes(p, o, "done", loc[p], AfterSwitchOff(call[p]),
               <<Write(REG_CONTROL_WORD, o, <<0>>)>>)
       /\ ctrl' = IF o = "ok" THEN 0 ELSE ctrl
       /\ UNCHANGED target

\* A direct call of get_status_word().
GetStatusWordCall(p) ==
  Starts(p, [NoCall EXCEPT !.op = "get_status_word"], NoLoc, "get_status_word")

\* get_status_word: reads register 1001 and returns (raw,
\* STATUS_WORD._make(bits)) with bits = to_bits_list(raw); no except clause.
\* The returned pair stays with the caller as loc.raw and loc.status, the
\* named tuple as its field values in declaration order.
GetStatusWordRead(p) ==
  /\ pc[p] = "get_status_word"
  /\ \E o \in Outcomes, sw \in CodecWords :
       LET e == <<Read(REG_STATUS_WORD, o, <<sw>>)>>
           status == STATUS_WORD(to_bits_list(sw))
       IN CASE o = "raise" -> Goes(p, o, "done", loc[p], "ModbusException", e)
            [] o = "error_response" -> Goes(p, o, "done", loc[p], "AttributeError", e)
            [] OTHER ->
                 Goes(p, o, "done",
                      [loc[p] EXCEPT !.raw = sw,
                                     !.status = [k \in 1..WordBits |->
                                                   status[StatusWordFields[k]]]],
                      "tuple", e)
  /\ UNCHANGED <<ctrl, target>>

\* A direct call of set_target_position(position).
SetTargetPositionCall(p, position) ==
  Starts(p, [NoCall EXCEPT !.op = "set_target_position", !.position = position],
         [NoLoc EXCEPT !.target_position = position], "set_target_position")

\* A direct call of get_target_position().
GetTargetPosition(p) ==
  Starts(p, [NoCall EXCEPT !.op = "get_target_position"], NoLoc,
         "get_target_position")

\* get_target_position: reads registers 1042-1043 and returns
\* merge_registers(result.registers); no except clause.
GetTargetPositionRead(p) ==
  /\ pc[p] = "get_target_position"
  /\ \E o \in Outcomes :
       LET e == <<Read(REG_TARGET_POSITION, o, target)>>
       IN CASE o = "raise" -> Goes(p, o, "done", loc[p], "ModbusException", e)
            [] o = "error_response" -> Goes(p, o, "done", loc[p], "AttributeError", e)
            [] OTHER ->
                 Goes(p, o, "done",
                      [loc[p] EXCEPT !.position = merge_registers(target)], "int", e)
  /\ UNCHANGED <<ctrl, target>>

\* A direct call of set_target_velocity(velocity).
SetTargetVelocityCall(p, velocity) ==
  Starts(p, [NoCall EXCEPT !.op = "set_target_velocity", !.velocity = velocity],
         NoLoc, "set_target_velocity")

\* set_target_velocity: lsb, msb = int32_to_uint16(velocity), then registers
\* 1048-1049 are written, with no test of the range before; a raised
\* ModbusException is caught and logged, the response not looked at.
SetTargetVelocity(p) ==
  /\ pc[p] = "set_target_velocity"
  /\ \E o \in Outcomes :
       Goes(p, o, "done", loc[p], "None",
            <<Write(REG_TARGET_VELOCITY, o, int32_to_uint16(call[p].velocity))>>)
  /\ UNCHANGED <<ctrl, target>>

\* ---------------------------------------------------------- specifications

\* The bits a direct set_control_word_bit call names, and the requests a
\* direct set_control_word_bits call makes.
BitArgs == {0, 4, 8, 15}
BitsArgs == {<<<<0, TRUE>>, <<3, TRUE>>>>, <<<<4, FALSE>>, <<5, TRUE>>, <<6, FALSE>>>>}

\* One caller, one operation, over a transport that may fail.
Next ==
  \/ Tick
  \/ \E p \in Callers :
       \/ \E position \in Positions, cs \in CoordinateSystems, csi \in BOOLEAN :
            \/ Move(p, position, cs, csi, FALSE, 0)
            \/ \E timeout \in Timeouts : Move(p, position, cs, csi, TRUE, timeout)
       \/ \E a \in Angles, cs \in CoordinateSystems, csi \in BOOLEAN :
            \/ Rotate(p, a[1], a[2], cs, csi, FALSE, 0)
            \/ \E timeout \in Timeouts : Rotate(p, a[1], a[2], cs, csi, TRUE, timeout)
       \/ Halt(p)
       \/ \E bit \in BitArgs, value \in BOOLEAN : SetControlWordBit(p, bit, value)
       \/ \E bits \in BitsArgs : SetControlWordBits(p, bits)
       \/ SetControlWordBitsRead(p)
       \/ SetControlWordBitsWrite(p)
       \/ SetTargetPosition(p)
       \/ SetControlWordBitRead(p)
       \/ SetControlWordBitWrite(p)
       \/ GetStatusWord(p)
       \/ GetStepRevolution(p)
       \/ GetActualPosition(p)
       \/ \E name \in DOMAIN PowerStageBits : PowerStage(p, name)
       \/ DisableOperation(p)
       \/ SwitchOff(p)
       \/ SwitchOffWrite(p)
       \/ Del(p)

Spec == Init /\ [][Next]_vars

\* Time advances and a caller that can make its next transport call makes it.
FairSpec ==
  /\ Spec
  /\ WF_vars(Tick)
  /\ \A p \in Callers : WF_vars(GetStatusWord(p))

\* Two callers share the drive, one operation each, over a transport that
\* does not fail.
InitConc ==
  /\ ctrl \in InitControlWords
  /\ target = <<0, 0>>
  /\ now = 0
  /\ faults = 0
  /\ left = [p \in Callers |-> 1]
  /\ pc = [p \in Callers |-> "idle"]
  /\ call = [p \in Callers |-> NoCall]
  /\ loc = [p \in Callers |-> NoLoc]
  /\ ret = [p \in Callers |-> "none"]
  /\ log = [p \in Callers |-> <<>>]
  /\ past = [p \in Callers |-> <<>>]

ConcPositions == {Wide(0, 1000), Wide(-1, 65535)}

NextConc ==
  \E p \in Callers :
    \/ \E position \in ConcPositions, cs \in CoordinateSystems, csi \in BOOLEAN :
         Move(p, position, cs, csi, FALSE, 0)
    \/ Halt(p)
    \/ \E bit \in BitArgs, value \in BOOLEAN : SetControlWordBit(p, bit, value)
    \/ \E bits \in BitsArgs : SetControlWordBits(p, bits)
    \/ SetControlWordBitsRead(p)
    \/ SetControlWordBitsWrite(p)
    \/ SetTargetPosition(p)
    \/ SetControlWordBitRead(p)
    \/ SetControlWordBitWrite(p)

ConcSpec == InitConc /\ [][NextConc]_vars

\* One caller reads and writes the whole control word, two calls in a row,
\* over a transport that does not fail.
InitCodec ==
  /\ ctrl \in CodecWords
  /\ target = <<0, 0>>
  /\ now = 0
  /\ faults = 0
  /\ left = [p \in Callers |-> IF p = "a" THEN 2 ELSE 0]
  /\ pc = [p \in Callers |-> "idle"]
  /\ call = [p \in Callers |-> NoCall]
  /\ loc = [p \in Callers |-> NoLoc]
  /\ ret = [p \in Callers |-> "none"]
  /\ log = [p \in Callers |-> <<>>]
  /\ past = [p \in Callers |-> <<>>]

\* The arguments of set_control_word: the CONTROL_WORD the caller's last
\* get_control_word returned, if any, a CONTROL_WORD with every field True,
\* or an int.
ControlArgs(p) ==
  (IF loc[p].control = <<>> THEN {}
   ELSE {[is_int |-> FALSE, int |-> 0, cw |-> loc[p].control]})
    \cup {[is_int |-> FALSE, int |-> 0, cw |-> [k \in 1..WordBits |-> TRUE]]}
    \cup {[is_int |-> TRUE, int |-> v, cw |-> <<>>] : v \in {0, 95}}

NextCodec ==
  \E p \in Callers :
    \/ GetControlWord(p)
    \/ GetControlWordRead(p)
    \/ \E control \in ControlArgs(p) : SetControlWord(p, control)
    \/ SetControlWordWrite(p)
    \/ GetStatusWordCall(p)
    \/ GetStatusWordRead(p)

CodecSpec == InitCodec /\ [][NextCodec]_vars

\* The control words a sequence of calls starts from: no bit, mixed patterns,
\* every bit.
SeqWords == {0, 95, 21845, 43690, 65535}

\* set_target_position's arguments in a sequence of calls: the ends of the
\* signed 32-bit range, values around 0 and around 2^16, and 2^31.
SeqPositions ==
  {Wide(-32768, 0), Wide(-32768, 1), Wide(-2, 65535), Wide(-1, 0),
   Wide(-1, 64536), Wide(-1, 65535), Wide(0, 0), Wide(0, 1), Wide(0, 1000),
   Wide(0, 65535), Wide(1, 0), Wide(32767, 65535), Wide(32768, 0)}

\* One caller makes two calls in a row, over a transport that does not fail.
InitSeq ==
  /\ ctrl \in SeqWords
  /\ target = <<0, 0>>
  /\ now = 0
  /\ faults = 0
  /\ left = [p \in Callers |-> IF p = "a" THEN 2 ELSE 0]
  /\ pc = [p \in Callers |-> "idle"]
  /\ call = [p \in Callers |-> NoCall]
  /\ loc = [p \in Callers |-> NoLoc]
  /\ ret = [p \in Callers |-> "none"]
  /\ log = [p \in Callers |-> <<>>]
  /\ past = [p \in Callers |-> <<>>]

\* The bits a set_control_word_bit call of a sequence names: every bit.
SeqBitArgs == 0..(WordBits - 1)

\* The requests a set_control_word_bits call of a sequence makes: move's
\* (bits 4, 5, 6), the empty dict, one bit, and bits out of order.
SeqBitsArgs ==
  {<<<<4, FALSE>>, <<5, csi>>, <<6, rel>>>> : csi \in BOOLEAN, rel \in BOOLEAN}
    \cup {<<>>, <<<<9, FALSE>>>>, <<<<0, TRUE>>, <<3, TRUE>>>>,
          <<<<15, TRUE>>, <<0, FALSE>>, <<8, TRUE>>>>}

NextSeq ==
  \E p \in Callers :
    \/ \E bits \in SeqBitsArgs : SetControlWordBits(p, bits)
    \/ SetControlWordBitsRead(p)
    \/ SetControlWordBitsWrite(p)
    \/ \E bit \in SeqBitArgs, value \in BOOLEAN : SetControlWordBit(p, bit, value)
    \/ SetControlWordBitRead(p)
    \/ SetControlWordBitWrite(p)
    \/ \E position \in SeqPositions : SetTargetPositionCall(p, position)
    \/ SetTargetPosition(p)
    \/ GetTargetPosition(p)
    \/ GetTargetPositionRead(p)
    \/ \E velocity \in SeqPositions : SetTargetVelocityCall(p, velocity)
    \/ SetTargetVelocity(p)
    \/ SwitchOff(p)
    \/ SwitchOffWrite(p)

SeqSpec == InitSeq /\ [][NextSeq]_vars

\* One caller calls rotate and then move, over a transport that does not fail.
InitRotateMove ==
  /\ ctrl \in InitControlWords
  /\ target = <<0, 0>>
  /\ now = 0
  /\ faults = 0
  /\ left = [p \in Callers |-> IF p = "a" THEN 2 ELSE 0]
  /\ pc = [p \in Callers |-> "idle"]
  /\ call = [p \in Callers |-> NoCall]
  /\ loc = [p \in Callers |-> NoLoc]
  /\ ret = [p \in Callers |-> "none"]
  /\ log = [p \in Callers |-> <<>>]
  /\ past = [p \in Callers |-> <<>>]

\* The caller of a finished rotate calls move with the target_position that
\* rotate computed and rotate's other arguments.
MoveAsRotated(p) ==
  /\ pc[p] = "done" /\ call[p].op = "rotate"
  /\ Move(p, loc[p].target_position, call[p].cs,
          call[p].change_setpoint_immediately,
          call[p].wait_for_target_reached, call[p].timeout)

NextRotateMove ==
  \/ Tick
  \/ \E p \in Callers :
       \/ /\ pc[p] = "idle"
          /\ \E a \in Angles, cs \in CoordinateSystems, csi \in BOOLEAN :
               \/ Rotate(p, a[1], a[2], cs, csi, FALSE, 0)
               \/ \E timeout \in Timeouts : Rotate(p, a[1], a[2], cs, csi, TRUE, timeout)
       \/ MoveAsRotated(p)
       \/ GetStepRevolution(p)
       \/ GetActualPosition(p)
       \/ SetControlWordBitsRead(p)
       \/ SetControlWordBitsWrite(p)
       \/ SetTargetPosition(p)
       \/ SetControlWordBitRead(p)
       \/ SetControlWordBitWrite(p)
       \/ GetStatusWord(p)

RotateMoveSpec == InitRotateMove /\ [][NextRotateMove]_vars
\* One caller makes four power-stage calls in a row, as the example does to
\* prepare the motor, over a transport that does not fail.
InitPower ==
  /\ ctrl \in SeqWords
  /\ target = <<0, 0>>
  /\ now = 0
  /\ faults = 0
  /\ left = [p \in Callers |-> IF p = "a" THEN 4 ELSE 0]
  /\ pc = [p \in Callers |-> "idle"]
  /\ call = [p \in Callers |-> NoCall]
  /\ loc = [p \in Callers |-> NoLoc]
  /\ ret = [p \in Callers |-> "none"]
  /\ log = [p \in Callers |-> <<>>]
  /\ past = [p \in Callers |-> <<>>]

NextPower ==
  \E p \in Callers :
    \/ \E name \in DOMAIN PowerStageBits : PowerStage(p, name)
    \/ SetControlWordBitRead(p)
    \/ SetControlWordBitWrite(p)

PowerSpec == InitPower /\ [][NextPower]_vars

\* ------------------------------------------------------------------ claims

\* The writes among the transport calls lg, in order.
Writes(lg) == SelectSeq(lg, LAMBDA e : e.op = "write")

\* No transport call of lg failed.
AllOk(lg) == \A k \in 1..Len(lg) : lg[k].ok

IsRead(e, addr) == e.op = "read" /\ e.addr = addr
IsWrite(e, addr) == e.op = "write" /\ e.addr = addr

\* Caller p's operation has ended.
Done(p) == pc[p] = "done"

\* C1: when two callers each run a set_control_word_bit on different bits,
\* over a transport that does not fail, then once both have returned the
\* control word holds both requested bit values (no lost update).
C1_NoLostUpdate ==
  (/\ \A p \in Callers : Done(p) /\ call[p].op = "set_control_word_bit"
   /\ call["a"].bit # call["b"].bit)
  => \A p \in Callers : (Bit(ctrl, call[p].bit) = 1) = call[p].value

\* The write sequence of a move that waits, read off caller p's log while no
\* transport call has failed: at most three writes, the first of the control
\* word with bits 4, 5, 6 at (0, change_setpoint_immediately, cs = relative)
\* and every other bit as read just before, the second of the two target
\* registers, the third of the control word with bit 4 set; every status read
\* comes after the third write and no write follows it; a finished call has
\* made the three writes and has polled.
MoveSequence(p) ==
  LET c == call[p]
      lg == log[p]
      w == Writes(lg)
  IN /\ Len(w) <= 3
     /\ Len(w) >= 1 =>
          /\ IsRead(lg[1], REG_CONTROL_WORD) /\ lg[2] = w[1]
          /\ IsWrite(w[1], REG_CONTROL_WORD)
          /\ Bit(w[1].val[1], 4) = 0
          /\ (Bit(w[1].val[1], 5) = 1) = c.change_setpoint_immediately
          /\ (Bit(w[1].val[1], 6) = 1) = (c.cs = "relative")
          /\ \A i \in (0..(WordBits - 1)) \ {4, 5, 6} :
               Bit(w[1].val[1], i) = Bit(lg[1].val[1], i)
     /\ Len(w) >= 2 => IsWrite(w[2], REG_TARGET_POSITION) /\ Len(w[2].val) = 2
     /\ Len(w) >= 3 => IsWrite(w[3], REG_CONTROL_WORD) /\ Bit(w[3].val[1], 4) = 1
     /\ \A k \in 1..Len(lg) :
          IsRead(lg[k], REG_STATUS_WORD) =>
            /\ Len(Writes(SubSeq(lg, 1, k))) = 3
            /\ k = Len(lg)
     /\ pc[p] \in {"poll", "done"} => Len(w) = 3
     /\ Done(p) => IsRead(lg[Len(lg)], REG_STATUS_WORD)

\* A move that waits, with an in-range target, none of whose transport calls
\* has failed.
WaitingMove(p) ==
  /\ call[p].op = "move"
  /\ call[p].wait_for_target_reached
  /\ ~OutOfInt32(call[p].position)
  /\ AllOk(log[p])

\* C2 as stated: a move with wait_for_target_reached over a transport that
\* does not fail makes exactly the three writes in order, polls only after
\* the third, and polls until target_reached is observed.
C2_PollsUntilReached ==
  \A p \in Callers :
    WaitingMove(p) =>
      /\ MoveSequence(p)
      /\ Done(p) => loc[p].target_reached

\* C2 (amended): a move with wait_for_target_reached over a transport that
\* does not fail makes exactly the three writes in order, polls only after
\* the third, and polls until target_reached is observed or the deadline
\* has passed.
C2_MoveSequence ==
  \A p \in Callers :
    WaitingMove(p) =>
      /\ MoveSequence(p)
      /\ Done(p) => loc[p].target_reached \/ now > loc[p].deadline

\* C2's case: a waiting move has ended having seen target_reached.
C2_Witness ==
  \E p \in Callers :
    /\ WaitingMove(p) /\ Done(p)
    /\ loc[p].target_reached /\ now <= loc[p].deadline
    /\ Len(log[p]) = 6

\* C3: a move whose target is outside [-2^31, 2^31 - 1] makes no transport
\* call.
C3_RejectedBeforeTransport ==
  \A p \in Callers :
    call[p].op = "move" /\ OutOfInt32(call[p].position) => log[p] = <<>>

\* The transport calls of steps 1 and 2 of a move or rotate: the control-word
\* read and write made before the target write, and the target write.
InStepOneOrTwo(lg, k) ==
  \/ IsWrite(lg[k], REG_TARGET_POSITION)
  \/ /\ lg[k].addr = REG_CONTROL_WORD
     /\ \A j \in 1..(k - 1) : ~IsWrite(lg[j], REG_TARGET_POSITION)

\* C4: when a transport call of step 1 or step 2 of a move or rotate fails,
\* the call makes no later transport call and ends with a failure result.
C4_NoPartialSequence ==
  \A p \in Callers :
    call[p].op \in {"move", "rotate"} =>
      \A k \in 1..Len(log[p]) :
        ~log[p][k].ok /\ InStepOneOrTwo(log[p], k) =>
          /\ k = Len(log[p])
          /\ Done(p) => ret[p] \notin {"None", "True"}

C6_NoWriteAfterFailedRead ==
  \A p \in Callers :
    \A k \in 1..Len(log[p]) :
      IsRead(log[p][k], REG_CONTROL_WORD) /\ ~log[p][k].ok =>
        /\ k < Len(log[p]) => ~IsWrite(log[p][k + 1], REG_CONTROL_WORD)
        /\ call[p].op \in {"set_control_word_bit", "set_control_word_bits"} =>
             Len(log[p]) = 1

\* C6's case: a direct bit-set call has ended after its read failed.
C6_Witness ==
  \E p \in Callers :
    /\ call[p].op \in {"set_control_word_bit", "set_control_word_bits"}
    /\ Done(p)
    /\ Len(log[p]) = 1 /\ ~log[p][1].ok

\* C7: a finished move whose transport calls all succeeded has returned a
\* boolean: True without wait_for_target_reached, and with it True when
\* target_reached was seen before the deadline and False on the deadline.
C7_MoveReturnsBool ==
  \A p \in Callers :
    (/\ call[p].op = "move" /\ Done(p)
     /\ ~OutOfInt32(call[p].position) /\ AllOk(log[p]))
    => IF call[p].wait_for_target_reached /\ ~loc[p].target_reached
       THEN ret[p] = "False"
       ELSE ret[p] \in {"True", "False"}

\* The last transport call of caller p's move or rotate is a failed read of
\* the status word.
PollFailed(p) ==
  /\ call[p].op \in {"move", "rotate"}
  /\ log[p] # <<>>
  /\ IsRead(log[p][Len(log[p])], REG_STATUS_WORD)
  /\ ~log[p][Len(log[p])].ok

WaitOutcomes == {"None", "True", "False", "ModbusException", "AttributeError"}

\* C9: the wait loop ends: a pass of the loop made after the deadline has
\* passed is the last one and leaves the call with one of the loop's
\* outcomes, and, time advancing and status reads returning, every wait loop
\* that starts ends, whether or not target_reached is ever reported.
C9_WaitTerminates ==
  /\ [][\A p \in Callers :
          (pc[p] = "poll" /\ now > loc[p].deadline /\ now' = now) =>
            pc'[p] = "done" /\ ret'[p] \in WaitOutcomes]_vars
  /\ \A p \in Callers : (pc[p] = "poll") ~> (Done(p) /\ ret[p] \in WaitOutcomes)

\* C9's case: a rotate has ended on its deadline without target_reached
\* having been reported.
C9_Witness ==
  \E p \in Callers :
    /\ call[p].op = "rotate" /\ Done(p)
    /\ ret[p] = "False" /\ ~loc[p].target_reached
    /\ now > loc[p].deadline

\* C10: set_control_word given the CONTROL_WORD that get_control_word decoded
\* from the value v writes v back to register 1040.
C10_RoundTrip ==
  \A p \in Callers :
    (/\ call[p].op = "set_control_word" /\ Done(p)
     /\ ~call[p].control.is_int
     /\ past[p] # <<>>
     /\ past[p][Len(past[p])].call.op = "get_control_word"
     /\ CONTROL_WORD(call[p].control.cw) = CONTROL_WORD(to_bits_list(loc[p].raw)))
    => /\ ret[p] = "None"
       /\ Writes(log[p]) = <<Write(REG_CONTROL_WORD, "ok", <<loc[p].raw>>)>>
       /\ ctrl = loc[p].raw

\* Caller p's operation before the one it runs now (or has just ended).
Last(p) == past[p][Len(past[p])]

\* C11: a position written by set_target_position is what get_target_position
\* then returns: merge_registers gives back x from the register pair that
\* int32_to_uint16 made of x, for every x in [-2^31, 2^31 - 1].
C11_RegisterPairRoundTrip ==
  \A p \in Callers :
    (/\ call[p].op = "get_target_position" /\ Done(p) /\ ret[p] = "int"
     /\ past[p] # <<>>
     /\ Last(p).call.op = "set_target_position"
     /\ Last(p).ret = "None" /\ AllOk(Last(p).log))
    => loc[p].position = Last(p).call.position

\* Caller p has ended set_control_word_bit(i, False) right after its
\* set_control_word_bit(i, True), every transport call of both having
\* succeeded.
SetThenCleared(p) ==
  /\ call[p].op = "set_control_word_bit" /\ ~call[p].value
  /\ Done(p) /\ ret[p] = "None" /\ AllOk(log[p])
  /\ past[p] # <<>>
  /\ Last(p).call.op = "set_control_word_bit" /\ Last(p).call.value
  /\ Last(p).call.bit = call[p].bit
  /\ Last(p).ret = "None" /\ AllOk(Last(p).log)

\* The control word the first of caller p's two calls read.
OriginalWord(p) == Last(p).log[1].val[1]

\* C12 as stated: set_control_word_bit(i, True) followed by
\* set_control_word_bit(i, False) leaves every bit of the control word, bit i
\* included, as it was in the original word.
C12_SetThenClearRestores ==
  \A p \in Callers :
    SetThenCleared(p) =>
      \A j \in 0..(WordBits - 1) : Bit(ctrl, j) = Bit(OriginalWord(p), j)

\* C12 (amended): set_control_word_bit(i, True) followed by
\* set_control_word_bit(i, False) leaves bit i at 0, which is the original
\* word's bit i when that was 0, and every other bit as it was in the
\* original word.
C12_SetThenClear ==
  \A p \in Callers :
    SetThenCleared(p) =>
      /\ Bit(ctrl, call[p].bit) = 0
      /\ \A j \in (0..(WordBits - 1)) \ {call[p].bit} :
           Bit(ctrl, j) = Bit(OriginalWord(p), j)

\* C12's case: bit 15 was set and then cleared in a word that had it and
\* other bits set.
C12_Witness ==
  \E p \in Callers :
    /\ SetThenCleared(p) /\ call[p].bit = 15
    /\ OriginalWord(p) = 43690 /\ ctrl = 10922

\* n / d truncated toward zero (d > 0), and the wide form of an integer.
ExactTrunc(n, d) == IF n >= 0 THEN n \div d ELSE -((-n) \div d)
IntWide(n) == Wide(n \div Word, n % Word)

\* angle * steps_per_revolution / (one full turn) truncated toward zero: a
\* full turn is 360 degrees, or 2 * pi radians with pi between 3.1415 and
\* 3.1416.
FullTurnTargets(angle, units, steps_per_revolution) ==
  IF units = "deg"
  THEN {IntWide(ExactTrunc(angle * steps_per_revolution, 360))}
  ELSE {IntWide(ExactTrunc(angle * steps_per_revolution * 10000, 2 * pi)) :
          pi \in {31415, 31416}}

\* C13: a relative rotate computes, once steps_per_revolution is read and
\* before the move sequence, the target angle * steps_per_revolution / (one
\* full turn) truncated toward zero, and that is the target it writes to
\* registers 1042-1043 (6400 for 180 degrees at 12800 steps per revolution).
C13_RelativeTarget ==
  \A p \in Callers :
    (/\ call[p].op = "rotate" /\ call[p].cs = "relative"
     /\ log[p] # <<>> /\ log[p][1].ok)
    => LET exact == FullTurnTargets(call[p].angle, call[p].units,
                                    loc[p].steps_per_revolution)
       IN /\ loc[p].target_position \in exact
          /\ \A k \in 1..Len(log[p]) :
               IsWrite(log[p][k], REG_TARGET_POSITION) =>
                 \E t \in exact : log[p][k].val = int32_to_uint16(t)

\* The k-th transport call of lg is a failed read of steps_per_revolution or
\* of the actual position.
FailedRotateRead(lg, k) ==
  /\ ~lg[k].ok
  /\ IsRead(lg[k], REG_STEP_REVOLUTION) \/ IsRead(lg[k], REG_ACTUAL_POSITION)

\* C14: a rotate whose read of steps_per_revolution or of the actual
\* position fails ends there with the transport's exception, having written
\* no register.
C14_RotateReadFailureAborts ==
  \A p \in Callers :
    call[p].op = "rotate" =>
      \A k \in 1..Len(log[p]) :
        FailedRotateRead(log[p], k) =>
          /\ k = Len(log[p])
          /\ Done(p)
          /\ ret[p] \in {"ModbusException", "AttributeError"}
          /\ Writes(log[p]) = <<>>
          /\ target = <<0, 0>>

\* C14's case: an absolute rotate has ended on its failed read of the actual
\* position, after reading steps_per_revolution.
C14_Witness ==
  \E p \in Callers :
    /\ call[p].op = "rotate" /\ call[p].cs = "absolute" /\ Done(p)
    /\ Len(log[p]) = 2 /\ log[p][1].ok /\ FailedRotateRead(log[p], 2)

\* Words a and b agree on every bit but bit i.
SameBut(a, b, i) == \A j \in (0..(WordBits - 1)) \ {i} : Bit(a, j) = Bit(b, j)

\* C15: halt writes only the control word, never a target register; of its
\* writes, one with bit 8 set never follows one with bit 8 cleared; and when
\* no transport call fails it writes the word it read with bit 8 set, then
\* that word with bit 8 cleared, which is what the control word holds in the
\* end: bit 8 at 0 and every other bit as before halt.
C15_HaltPulse ==
  \A p \in Callers :
    call[p].op = "halt" =>
      LET lg == log[p]
          w == Writes(lg)
      IN /\ \A k \in 1..Len(w) : IsWrite(w[k], REG_CONTROL_WORD)
         /\ target = <<0, 0>>
         /\ Len(w) <= 2
         /\ Len(w) = 2 => ~(Bit(w[1].val[1], 8) = 0 /\ Bit(w[2].val[1], 8) = 1)
         /\ AllOk(lg) =>
              /\ Len(w) >= 1 =>
                   /\ IsRead(lg[1], REG_CONTROL_WORD)
                   /\ Bit(w[1].val[1], 8) = 1
                   /\ SameBut(w[1].val[1], lg[1].val[1], 8)
              /\ Len(w) = 2 =>
                   /\ Bit(w[2].val[1], 8) = 0
                   /\ SameBut(w[2].val[1], lg[1].val[1], 8)
              /\ Done(p) => Len(w) = 2 /\ ctrl = w[2].val[1]

\* C15's case: halt has ended, no transport call having failed, on a control
\* word that had every bit set.
C15_Witness ==
  \E p \in Callers :
    /\ call[p].op = "halt" /\ Done(p) /\ AllOk(log[p])
    /\ log[p][1].val = <<65535>> /\ ctrl = 65279

\* The named power-stage transitions and the control bit of each.
PowerBit ==
  [switch_on |-> 0, switch_off |-> 0, enable_voltage |-> 1, disable_voltage |-> 1,
   quick_stop |-> 2, release_quick_stop |-> 2, enable_operation |-> 3,
   disable_operation |-> 3]

\* C16: a named power-stage transition that has ended, no transport call
\* having failed, has made one read and then one write of register 1040,
\* and the word written differs from the word read in its own bit at most.
C16_SingleReadModifyWrite ==
  \A p \in Callers :
    (call[p].op \in DOMAIN PowerBit /\ Done(p) /\ AllOk(log[p]))
    => /\ Len(log[p]) = 2
       /\ IsRead(log[p][1], REG_CONTROL_WORD)
       /\ IsWrite(log[p][2], REG_CONTROL_WORD)
       /\ SameBut(log[p][2].val[1], log[p][1].val[1], PowerBit[call[p].op])

\* C17: every write of the control word made by an operation that changes
\* control bits comes right after a successful read of the control word in
\* that same operation, and leaves the bits no operation here names (9 to
\* 14) as they were read.
C17_WriteFollowsRead ==
  \A p \in Callers :
    call[p].op # "set_control_word" =>
      \A k \in 1..Len(log[p]) :
        IsWrite(log[p][k], REG_CONTROL_WORD) =>
          /\ k > 1
          /\ IsRead(log[p][k - 1], REG_CONTROL_WORD)
          /\ log[p][k - 1].ok
          /\ \A j \in 9..14 : Bit(log[p][k].val[1], j) = Bit(log[p][k - 1].val[1], j)

\* The protocol's status-word layout: field name and bit position, counted
\* from the least significant bit.
StatusBitLayout ==
  {<<"ready_to_switch_on", 0>>, <<"switched_on", 1>>, <<"operation_enabled", 2>>,
   <<"fault", 3>>, <<"voltage_enabled", 4>>, <<"quick_stop", 5>>,
   <<"switch_on_disabled", 6>>, <<"warning", 7>>, <<"remote", 9>>,
   <<"target_reached", 10>>, <<"following_error", 13>>}

\* C18: each named field of the STATUS_WORD that get_status_word returns for
\* a raw value is the raw value's bit at the field's protocol position.
C18_StatusBits ==
  \A p \in Callers :
    (call[p].op = "get_status_word" /\ Done(p) /\ ret[p] = "tuple")
    => \A f \in StatusBitLayout :
         STATUS_WORD(loc[p].status)[f[1]] = (Bit(loc[p].raw, f[2]) = 1)

\* C18's case: get_status_word has returned for a raw value with bit 10
\* alone set, and for one with mixed bits.
C18_Witness ==
  \E p \in Callers :
    /\ call[p].op = "get_status_word" /\ Done(p) /\ ret[p] = "tuple"
    /\ loc[p].raw = 43690
    /\ past[p] # <<>> /\ Last(p).call.op = "get_status_word"
    /\ Last(p).log[1].val = <<1024>>

\* C19: a handle being destroyed first attempts the switch-off write of 0
\* to the control word: once __del__ is past that statement the write is
\* the first transport call it has made, and no closing of the connection
\* comes before it.
C19_SwitchOffBeforeClose ==
  \A p \in Callers :
    call[p].op = "__del__" =>
      /\ \A k \in 1..Len(log[p]) :
           log[p][k].op = "close" =>
             \E j \in 1..(k - 1) : IsWrite(log[p][j], REG_CONTROL_WORD)
      /\ pc[p] # "switch_off" =>
           /\ log[p] # <<>>
           /\ IsWrite(log[p][1], REG_CONTROL_WORD)
           /\ log[p][1].val = <<0>>

\* C19's case: __del__ has ended after a switch-off write that the
\* transport failed.
C19_Witness ==
  \E p \in Callers :
    /\ call[p].op = "__del__" /\ Done(p)
    /\ IsWrite(log[p][1], REG_CONTROL_WORD) /\ ~log[p][1].ok

\* C20: a set_control_word_bits call that has ended, no transport call
\* having failed, has made one read and then one write of register 1040,
\* and the word written, which the register now holds, has every requested
\* bit at its requested value and every other bit as it was read.
C20_BitsFromOneRead ==
  \A p \in Callers :
    call[p].op = "set_control_word_bits" /\ AllOk(log[p]) =>
      /\ Len(log[p]) <= 2
      /\ Done(p) =>
           /\ Len(log[p]) = 2
           /\ IsRead(log[p][1], REG_CONTROL_WORD)
           /\ IsWrite(log[p][2], REG_CONTROL_WORD)
           /\ ctrl = log[p][2].val[1]
           /\ \A j \in 0..(WordBits - 1) :
                LET asked == {k \in 1..Len(call[p].bits) : call[p].bits[k][1] = j}
                IN IF asked = {}
                   THEN Bit(log[p][2].val[1], j) = Bit(log[p][1].val[1], j)
                   ELSE \A k \in asked :
                          (Bit(log[p][2].val[1], j) = 1) = call[p].bits[k][2]

\* C20's case: a request for bits 15, 0 and 8 has ended on the word 43690.
C20_Witness ==
  \E p \in Callers :
    /\ call[p].op = "set_control_word_bits" /\ Done(p) /\ AllOk(log[p])
    /\ Len(call[p].bits) = 3 /\ call[p].bits[1][1] = 15
    /\ log[p][1].val = <<43690>> /\ ctrl = 43946

\* A move that has returned to its caller, none of its transport calls having
\* failed; there is one caller, so no other writer.
MoveReturned(p) ==
  /\ call[p].op = "move" /\ Done(p) /\ ret[p] = "None" /\ AllOk(log[p])

\* C21: after a move that has returned, no transport call having failed and
\* no other caller writing, the control word has bit 4 set, bit 5 at
\* change_setpoint_immediately, bit 6 set exactly for the relative
\* coordinate system, and bits 0-3 and 7-15 as in the word w the move first
\* read.
C21_MoveControlBits ==
  \A p \in Callers :
    MoveReturned(p) =>
      /\ IsRead(log[p][1], REG_CONTROL_WORD)
      /\ Bit(ctrl, 4) = 1
      /\ (Bit(ctrl, 5) = 1) = call[p].change_setpoint_immediately
      /\ (Bit(ctrl, 6) = 1) = (call[p].cs = "relative")
      /\ \A i \in (0..3) \cup (7..(WordBits - 1)) :
           Bit(ctrl, i) = Bit(log[p][1].val[1], i)

\* C21's case: an absolute move without change_setpoint_immediately has
\* returned, having started from the word with every bit set.
C21_Witness ==
  \E p \in Callers :
    /\ MoveReturned(p)
    /\ log[p][1].val = <<65535>>
    /\ call[p].cs = "absolute" /\ ~call[p].change_setpoint_immediately
    /\ ctrl = 65439

\* Caller p runs a move or rotate that waits, no transport call of which has
\* failed, and its latest transport call was a poll of the status word.
Polled(p) ==
  /\ call[p].op \in {"move", "rotate"} /\ call[p].wait_for_target_reached
  /\ AllOk(log[p]) /\ log[p] # <<>>
  /\ IsRead(log[p][Len(log[p])], REG_STATUS_WORD)

\* The status word caller p polled last.
LastPolled(p) == log[p][Len(log[p])].val[1]

\* The wait loop leaves polling for reached exactly on status bit b: it polls
\* on after a word with bit b clear, it has ended only after a word with bit
\* b set or past its deadline, and rotate returns True only after a word
\* with bit b set and False only past its deadline.
ReachedOnBit(b) ==
  \A p \in Callers :
    Polled(p) =>
      /\ pc[p] = "poll" => Bit(LastPolled(p), b) = 0
      /\ Done(p) => Bit(LastPolled(p), b) = 1 \/ now > loc[p].deadline
      /\ Done(p) /\ ret[p] = "True" => Bit(LastPolled(p), b) = 1
      /\ Done(p) /\ ret[p] = "False" => now > loc[p].deadline

\* C22 as stated: the wait loop moves from polling to reached exactly when a
\* polled status word has bit 5 set; it polls until bit 5 is set or the
\* timeout elapses.
C22_ReachedOnBit5 == ReachedOnBit(5)

\* C22 (amended): the wait loop moves from polling to reached exactly when a
\* polled status word has bit 10 (target_reached) set; it polls until bit 10
\* is set or the timeout elapses.
C22_ReachedOnBit10 == ReachedOnBit(10)

\* C22's case: a rotate that waits has returned True on a status word with
\* bit 10 set and bit 5 clear.
C22_Witness ==
  \E p \in Callers :
    /\ Polled(p) /\ Done(p) /\ call[p].op = "rotate" /\ ret[p] = "True"
    /\ LastPolled(p) = 1024

\* C23: a failed read of the status word in the wait loop ends the wait at
\* once: the step that makes the failed read ends the move or rotate with the
\* transport's exception, whatever time is left before the deadline, and the
\* call makes no transport call (no status read, no write) after it.
C23_FailedPollEndsWait ==
  [][\A p \in Callers :
       /\ (pc[p] = "poll" /\ PollFailed(p)') =>
            /\ pc'[p] = "done"
            /\ ret'[p] \in {"ModbusException", "AttributeError"}
       /\ PollFailed(p) =>
            /\ pc[p] = "done" /\ pc'[p] = "done"
            /\ log'[p] = log[p] /\ ctrl' = ctrl /\ target' = target]_vars

\* C23's case: a rotate has ended on an error response to its status read
\* while time was left before its deadline.
C23_Witness ==
  \E p \in Callers :
    /\ PollFailed(p) /\ Done(p) /\ call[p].op = "rotate"
    /\ ret[p] = "AttributeError"
    /\ now < loc[p].deadline

\* The transport calls lg without the reads of registers 1081 and 1004-1005
\* by which rotate computes its target.
AfterTargetSteps(lg) ==
  SelectSeq(lg, LAMBDA e : e.addr \notin {REG_STEP_REVOLUTION, REG_ACTUAL_POSITION})

\* The kind and register of each transport call of lg, in order.
Shape(lg) == [k \in 1..Len(lg) |-> <<lg[k].op, lg[k].addr>>]

\* Caller p's move, called with the target and the arguments of the rotate
\* it ran before, has ended.
MovedAsRotated(p) ==
  /\ call[p].op = "move" /\ Done(p)
  /\ past[p] # <<>> /\ Last(p).call.op = "rotate"

\* C24: the register writes and polls rotate makes once it has computed its
\* target are those of move called with that target and the same coordinate
\* system, change_setpoint_immediately, wait and timeout: the same calls on
\* the same registers in the same order, and the same values written.
C24_RotateDelegatesToMove ==
  \A p \in Callers :
    MovedAsRotated(p) =>
      /\ Shape(AfterTargetSteps(Last(p).log)) = Shape(log[p])
      /\ Writes(Last(p).log) = Writes(log[p])

\* C24's case: an absolute rotate with change_setpoint_immediately that
\* waited, and the move after it, have both ended on a poll.
C24_Witness ==
  \E p \in Callers :
    /\ MovedAsRotated(p)
    /\ call[p].cs = "absolute" /\ call[p].change_setpoint_immediately
    /\ Len(Last(p).log) = 8 /\ Len(log[p]) = 6

\* C25: a 32-bit motion value outside the signed 32-bit range never reaches
\* the register-pair codec: set_target_velocity and set_target_position, given
\* such a value, make no register write and end with a ValueError.
C25_OutOfRangeRejected ==
  \A p \in Callers :
    \/ call[p].op = "set_target_position" /\ OutOfInt32(call[p].position)
    \/ call[p].op = "set_target_velocity" /\ OutOfInt32(call[p].velocity)
    => /\ Writes(log[p]) = <<>>
       /\ Done(p) => ret[p] = "ValueError"

\* The example's calls that prepare the motor, in order, and the control
\* bit each of them sets.
PowerUp == <<"quick_stop", "enable_voltage", "switch_on", "enable_operation">>
PowerUpBits == <<2, 1, 0, 3>>

\* The operations caller p has run to their end, in order.
Ran(p) ==
  [k \in 1..Len(past[p]) |-> past[p][k].call.op]
    \o (IF Done(p) THEN <<call[p].op>> ELSE <<>>)

\* The control word the first operation of caller p read first.
FirstWord(p) == (IF past[p] = <<>> THEN log[p] ELSE past[p][1].log)[1].val[1]

\* C26: quick_stop, enable_voltage, switch_on, enable_operation, run in that
\* order from a control word w with no failure and no other writer: after
\* each step the bits set by it and by the earlier steps are set and bits
\* 4-15 are as in w, so that the sequence ends with bits 0, 1, 2 and 3 set
\* and bits 4-15 as in w.
C26_PowerUp ==
  \A p \in Callers :
    \A n \in 1..Len(PowerUp) :
      Ran(p) = SubSeq(PowerUp, 1, n) =>
        /\ \A k \in 1..n : Bit(ctrl, PowerUpBits[k]) = 1
        /\ \A i \in 4..(WordBits - 1) : Bit(ctrl, i) = Bit(FirstWord(p), i)

\* C26's case: the four calls have run from the word 43690, in which bits 0
\* and 2 are clear.
C26_Witness ==
  \E p \in Callers :
    /\ Ran(p) = PowerUp
    /\ FirstWord(p) = 43690
    /\ ctrl = 43695

\* C27: switch_off reads nothing and makes one transport call, the write of
\* 0 to register 1040: once it has ended with that write made, every bit of
\* the control word is 0, whatever the word was before.
C27_SwitchOffClearsAll ==
  \A p \in Callers :
    call[p].op = "switch_off" =>
      /\ Len(log[p]) <= 1
      /\ \A k \in 1..Len(log[p]) : log[p][k].op # "read"
      /\ Done(p) /\ AllOk(log[p]) =>
           /\ log[p] = <<Write(REG_CONTROL_WORD, "ok", <<0>>)>>
           /\ \A i \in 0..(WordBits - 1) : Bit(ctrl, i) = 0

\* C27's case: switch_off has ended after a call that left every bit of the
\* control word set.
C27_Witness ==
  \E p \in Callers :
    /\ call[p].op = "switch_off" /\ Done(p) /\ AllOk(log[p])
    /\ past[p] # <<>> /\ Last(p).call.op = "set_control_word_bit"
    /\ Last(p).log[2].val = <<65535>>
    /\ ctrl = 0

\* Caller p runs a move or rotate whose target is within the signed 32-bit
\* range and none of whose transport calls has failed.
Moving(p) ==
  /\ call[p].op \in {"move", "rotate"}
  /\ AllOk(log[p])
  /\ ~OutOfInt32(loc[p].target_position)

\* The target registers hold the target of caller p's call.
TargetWritten(p) == target = int32_to_uint16(loc[p].target_position)

\* C28: a move or rotate with no failed transport call and no other writer
\* raises bit 4 of the control word from 0 to 1, whatever bit 4 was before
\* the call: bit 4 is 0 while the target is written, the target registers
\* hold the call's target from then on, and the trigger write finds bit 4 at
\* 0 and the target in place and leaves bit 4 at 1.
C28_TriggerEdge ==
  /\ [](\A p \in Callers :
         Moving(p) =>
           /\ pc[p] = "set_target_position" => Bit(ctrl, 4) = 0
           /\ pc[p] \in {"bit_read", "bit_write"} =>
                Bit(ctrl, 4) = 0 /\ TargetWritten(p)
           /\ pc[p] \in {"poll", "done"} => Bit(ctrl, 4) = 1 /\ TargetWritten(p))
  /\ [][\A p \in Callers :
          (Moving(p) /\ pc[p] = "bit_write" /\ pc'[p] # "bit_write"
             /\ AllOk(log'[p])) =>
            /\ Bit(ctrl, 4) = 0 /\ Bit(ctrl', 4) = 1
            /\ TargetWritten(p) /\ target' = target]_vars

\* C28's case: a move to a negative target has returned, having started
\* from a control word with bit 4 set.
C28_Witness ==
  \E p \in Callers :
    /\ Moving(p) /\ call[p].op = "move" /\ Done(p)
    /\ log[p][1].val = <<95>>
    /\ call[p].position.hi < 0
    /\ Bit(ctrl, 4) = 1 /\ TargetWritten(p)

\* C29: in rotate's wait loop the deadline test follows every poll, also the
\* poll that observes target_reached: a poll made with the deadline passed
\* ends the call with False even if it observes target_reached, a poll
\* ends the call with True exactly when it observes target_reached and the
\* deadline has not passed, and a rotate that waits does not return without
\* a status read, even with timeout 0.
C29_DeadlineAfterEveryPoll ==
  /\ [][\A p \in Callers :
          (/\ call[p].op = "rotate" /\ pc[p] = "poll"
           /\ now' = now /\ log'[p][Len(log'[p])].ok) =>
            /\ now > loc[p].deadline => pc'[p] = "done" /\ ret'[p] = "False"
            /\ (pc'[p] = "done" /\ ret'[p] = "True") <=>
                 (Bit(log'[p][Len(log'[p])].val[1], 10) = 1
                    /\ ~(now > loc[p].deadline))]_vars
  /\ [](\A p \in Callers :
         (/\ call[p].op = "rotate" /\ call[p].wait_for_target_reached
          /\ Done(p) /\ ret[p] \in {"True", "False"}) =>
           IsRead(log[p][Len(log[p])], REG_STATUS_WORD))

\* C29's case: a rotate with timeout 0 has returned False on a poll that
\* observed target_reached after the deadline.
C29_Witness ==
  \E p \in Callers :
    /\ call[p].op = "rotate" /\ call[p].wait_for_target_reached
    /\ call[p].timeout = 0
    /\ Done(p) /\ ret[p] = "False"
    /\ Polled(p) /\ LastPolled(p) = 1024
    /\ now > loc[p].deadline

\* The device holds the target of p's move and, in control bits 5 and 6, the
\* change_setpoint_immediately and coordinate system of q's move, which are
\* not p's; q's target is another.
Mixed(p, q) ==
  /\ call[p].op = "move" /\ call[q].op = "move"
  /\ target = int32_to_uint16(call[p].position)
  /\ target # int32_to_uint16(call[q].position)
  /\ (Bit(ctrl, 5) = 1) = call[q].change_setpoint_immediately
  /\ (Bit(ctrl, 6) = 1) = (call[q].cs = "relative")
  /\ \/ call[p].change_setpoint_immediately # call[q].change_setpoint_immediately
     \/ call[p].cs # call[q].cs

\* C30: when two moves run concurrently on one drive their sequences do not
\* interleave: bit 4 of the control word never rises while the target
\* registers hold one call's target and control bits 5 and 6 the other
\* call's change_setpoint_immediately and coordinate system.
C30_NoInterleaving ==
  [][(Bit(ctrl, 4) = 0 /\ Bit(ctrl', 4) = 1) =>
       ~(\E p \in Callers, q \in Callers : p # q /\ Mixed(p, q)')]_vars

====
